---- MODULE Spec2Model ----
(***************************************************************************)
(* Model of perceval/backends/gerrit.py: the Gerrit review-ingestion       *)
(* engine (project discovery, paginated review retrieval, the disk cache   *)
(* and the memory-capped ingestion loop).                                  *)
(*                                                                         *)
(* Text (remote responses, cache files) is a sequence of tokens.  A token  *)
(* is one character, or one atomic chunk of JSON text that holds no        *)
(* newline, no quote and no ",]" and neither starts with "]" nor ends with *)
(* ",": the head of a review object or the body of a stats object.         *)
(***************************************************************************)
EXTENDS Integers, Sequences, FiniteSets, TLC

\* ------------------------------------------------------------------ bounds
MaxProjects == 2          \* projects the remote lists
MaxReviewsPerProject == 2 \* reviews the remote holds per project
MaxPageSize == 2          \* largest nreviews (page size) tried
MaxRuns == 2              \* engines constructed one after another on one disk
MaxCalls == 2             \* get_reviews calls on one engine
\* self.max_reviews: the code sets 1000 * 50; the model scales it down.
max_reviews == 2
\* Query commands of one fetch that are followed; a fetch served by a remote
\* that ends its answers with the control record issues at most
\* MaxReviewsPerProject + 1 of them.
MaxQueries == MaxReviewsPerProject + 4

\* ------------------------------------------------------------------- text
Ch(x) == [c |-> x, p |-> <<>>, n |-> 0, k |-> 0]
NL == Ch("\n")
COMMA == Ch(",")
SPACE == Ch(" ")
LBR == Ch("[")
RBR == Ch("]")
LBRACE == Ch("{")
RBRACE == Ch("}")
QUOTE == Ch("\"")

Chars(s) == [i \in 1..Len(s) |-> Ch(s[i])]

\* The parsed JSON values the engine handles: a review (a dict with a
\* 'project' key), a stats row (a dict with a 'rowCount' key), a string.
ReviewEntry(p, n, k, s) ==
    [kind |-> "review", project |-> p, number |-> n, sortKey |-> k,
     subject |-> s, rowCount |-> 0]
StatsEntry(n) ==
    [kind |-> "stats", project |-> <<>>, number |-> 0, sortKey |-> 0,
     subject |-> <<>>, rowCount |-> n]
StrEntry(s) ==
    [kind |-> "str", project |-> <<>>, number |-> 0, sortKey |-> 0,
     subject |-> s, rowCount |-> 0]

\* entry.keys()
Keys(e) ==
    CASE e.kind = "review" -> {"project", "number", "sortKey", "subject"}
      [] e.kind = "stats" -> {"type", "rowCount"}
      [] OTHER -> {}

\* One JSON object as text: {"project":..,"number":..,"sortKey":..,"subject":"<subject>"}
ObjectText(e) ==
    IF e.kind = "review"
    THEN <<LBRACE, [c |-> "review", p |-> e.project, n |-> e.number, k |-> e.sortKey],
           QUOTE>> \o Chars(e.subject) \o <<QUOTE, RBRACE>>
    ELSE IF e.kind = "stats"
    THEN <<LBRACE, [c |-> "stats", p |-> <<>>, n |-> e.rowCount, k |-> 0], RBRACE>>
    ELSE <<QUOTE>> \o Chars(e.subject) \o <<QUOTE>>

\* str.replace("\n", ",")
ReplaceNewlines(s) == [i \in 1..Len(s) |-> IF s[i] = NL THEN COMMA ELSE s[i]]

\* str.replace(",]", "]"): every occurrence, left to right, wherever it is.
RECURSIVE ReplaceFrom(_, _)
ReplaceFrom(s, i) ==
    IF i > Len(s) THEN <<>>
    ELSE IF i < Len(s) /\ s[i] = COMMA /\ s[i + 1] = RBR
         THEN <<RBR>> \o ReplaceFrom(s, i + 2)
         ELSE <<s[i]>> \o ReplaceFrom(s, i + 1)
ReplaceCommaBracket(s) == ReplaceFrom(s, 1)

\* The framing of one query response into the text of a JSON array.
FrameTickets(raw_data) ==
    ReplaceCommaBracket(<<LBR>> \o ReplaceNewlines(raw_data) \o <<RBR>>)

\* json.loads, for the texts the engine reads: an array of objects or strings.
\* The result is [ok |-> FALSE, val |-> <<>>] where json.loads raises ValueError.
ParseFail == [ok |-> FALSE, val |-> <<>>]

RECURSIVE StringEnd(_, _)
StringEnd(s, i) ==
    IF i > Len(s) THEN 0
    ELSE IF s[i] = QUOTE THEN i
    ELSE StringEnd(s, i + 1)

\* The value that starts at s[i]: [ok, v, next].
ParseValueAt(s, i) ==
    LET bad == [ok |-> FALSE, v |-> StrEntry(<<>>), next |-> 0]
        text(a, b) == [j \in 1..(b - a + 1) |-> s[a + j - 1].c]
    IN  IF i > Len(s) THEN bad
        ELSE IF s[i] = QUOTE
        THEN LET j == StringEnd(s, i + 1)
             IN  IF j = 0 THEN bad
                 ELSE [ok |-> TRUE, v |-> StrEntry(text(i + 1, j - 1)), next |-> j + 1]
        ELSE IF s[i] = LBRACE /\ i + 2 <= Len(s)
        THEN IF s[i + 1].c = "stats"
             THEN IF s[i + 2] = RBRACE
                  THEN [ok |-> TRUE, v |-> StatsEntry(s[i + 1].n), next |-> i + 3]
                  ELSE bad
             ELSE IF s[i + 1].c = "review" /\ s[i + 2] = QUOTE
             THEN LET j == StringEnd(s, i + 3)
                  IN  IF j = 0 \/ j + 1 > Len(s) \/ s[j + 1] # RBRACE THEN bad
                      ELSE [ok |-> TRUE,
                            v |-> ReviewEntry(s[i + 1].p, s[i + 1].n, s[i + 1].k,
                                              text(i + 3, j - 1)),
                            next |-> j + 2]
             ELSE bad
        ELSE bad

RECURSIVE ParseElements(_, _, _)
ParseElements(s, i, acc) ==
    LET r == ParseValueAt(s, i)
    IN  IF ~r.ok \/ r.next > Len(s) THEN ParseFail
        ELSE IF s[r.next] = RBR
        THEN IF r.next = Len(s) THEN [ok |-> TRUE, val |-> Append(acc, r.v)]
             ELSE ParseFail
        ELSE IF s[r.next] = COMMA
        THEN LET j == IF r.next + 1 <= Len(s) /\ s[r.next + 1] = SPACE
                      THEN r.next + 2 ELSE r.next + 1
             IN  ParseElements(s, j, Append(acc, r.v))
        ELSE ParseFail

JsonLoads(s) ==
    IF Len(s) < 2 \/ s[1] # LBR THEN ParseFail
    ELSE IF s[2] = RBR
    THEN IF Len(s) = 2 THEN [ok |-> TRUE, val |-> <<>>] ELSE ParseFail
    ELSE ParseElements(s, 2, <<>>)

\* json.dumps of a list: the elements joined by ", " between brackets.
RECURSIVE JoinElements(_)
JoinElements(l) ==
    IF l = <<>> THEN <<>>
    ELSE IF Len(l) = 1 THEN ObjectText(l[1])
    ELSE ObjectText(l[1]) \o <<COMMA, SPACE>> \o JoinElements(Tail(l))
JsonDumps(l) == <<LBR>> \o JoinElements(l) \o <<RBR>>

\* str.split("\n"): the lines of a text, the last one possibly empty.
RECURSIVE SplitFrom(_, _, _)
SplitFrom(s, i, cur) ==
    IF i > Len(s) THEN <<cur>>
    ELSE IF s[i] = NL THEN <<cur>> \o SplitFrom(s, i + 1, <<>>)
    ELSE SplitFrom(s, i + 1, Append(cur, s[i].c))
SplitLines(s) == SplitFrom(s, 1, <<>>)

\* list.pop(): the list without its last element.
Pop(l) == SubSeq(l, 1, Len(l) - 1)

\* project.replace("/", "_")
Sanitize(project) ==
    [i \in 1..Len(project) |-> IF project[i] = "/" THEN "_" ELSE project[i]]


\* ----------------------------------------------------------- remote service
\* Project identifiers, as the characters of their names.
Names == {<<"a", "/", "b">>, <<"a", "_", "b">>, <<"c">>}
FileNames == {Sanitize(n) : n \in Names}

\* The projects in the order the remote lists them.
NameOrder == <<<<"a", "/", "b">>, <<"a", "_", "b">>, <<"c">>>>

\* Version banners tried: "gerrit version <major>.<minor>...".
Versions == {<<2, 8>>, <<2, 9>>}

VARIABLES
    remote,          \* the remote Gerrit: projects, reviews, version, the
                     \* banner its version command prints ("full", "cut" after
                     \* the major number, "garbage"), limit quirk, whether
                     \* ls-projects ends with a newline, and its fault:
                     \* "none", "unreliable" (a command may fail, an answer may
                     \* be cut off), "nostats" (answers carry no control record)
    psutil,          \* whether _memory_usage can do its work: psutil can be
                     \* imported and measures the process
    disk,            \* the storage directory: cache_projects.json, reviews.json,
                     \* cache_<project>-reviews.json
    nreviews,        \* self.nreviews
    use_cache,       \* self.use_cache
    use_history,     \* self.use_history
    cache,           \* self.cache
    reviews,         \* self.reviews
    issues,          \* self.issues (set by _restore only)
    pc,              \* where the process is
    projects,        \* get_reviews: projects
    current_repo,    \* get_reviews: current_repo; projects[current_repo] is fetched
    gerrit_version,  \* _get_project_reviews: gerrit_version
    last_item,       \* _get_project_reviews: last_item
    number_results,  \* _get_project_reviews: number_results
    raw_data,        \* what the last subprocess.check_output got: the exit
                     \* status and the output
    project_reviews, \* _get_project_reviews: reviews (the local list)
    cmdLog,          \* remote commands this engine has issued, in order
    args,            \* the constructor's arguments and what its except caught
    calls,           \* get_reviews calls this engine has returned from
    runs             \* engines constructed so far

vars == <<remote, psutil, disk, nreviews, use_cache, use_history, cache, reviews, issues,
          pc, projects, current_repo, gerrit_version, last_item, number_results,
          raw_data, project_reviews, cmdLog, args, calls, runs>>

KeyOf(i) == 10 * i
\* The subject of a review: "x", but "[,]" for the first review of project c.
SubjectOf(project, i) ==
    IF project = <<"c">> /\ i = 1 THEN <<"[", ",", "]">> ELSE <<"x">>

\* The reviews the remote holds for a project, in the order it returns them.
RemoteReviews(project) ==
    IF project \in Names
    THEN [i \in 1..remote.count[project] |->
            ReviewEntry(project, i, KeyOf(i), SubjectOf(project, i))]
    ELSE <<>>

Min(a, b) == IF a < b THEN a ELSE b

RECURSIVE Lines(_)
Lines(rows) ==
    IF rows = <<>> THEN <<>>
    ELSE ObjectText(rows[1]) \o <<NL>> \o Lines(Tail(rows))

\* Position of the review with a given sortKey (0 when there is none).
KeyPosition(all, key) ==
    IF \E i \in 1..Len(all) : all[i].sortKey = key
    THEN CHOOSE i \in 1..Len(all) : all[i].sortKey = key
    ELSE 0

\* The remote's answer to a query command: the rows after the cursor, at most
\* limit of them (limit + 1 where the deployment has that quirk), one per line,
\* then the stats row with rowCount = the number of rows of this page.
QueryRows(cmd) ==
    LET all == RemoteReviews(cmd.project)
        from == CASE cmd.cursor = "start" -> cmd.v + 1
                  [] cmd.cursor = "resume" -> KeyPosition(all, cmd.v) + 1
                  [] OTHER -> 1
        n == IF remote.plusOne THEN cmd.limit + 1 ELSE cmd.limit
    IN  SubSeq(all, from, Min(from + n - 1, Len(all)))
RemoteQuery(cmd) ==
    Lines(QueryRows(cmd)) \o ObjectText(StatsEntry(Len(QueryRows(cmd)))) \o <<NL>>

\* What subprocess.check_output can get for a query command: the answer with
\* exit status 0; from an unreliable remote also a non-zero exit status
\* (CalledProcessError) and an answer cut off inside the control record; from
\* a remote that sends no control record the data rows alone.
QueryResponses(cmd) ==
    IF remote.fault = "nostats"
    THEN {[status |-> 0, out |-> Lines(QueryRows(cmd))]}
    ELSE {[status |-> 0, out |-> RemoteQuery(cmd)]} \cup
         IF remote.fault = "unreliable"
         THEN {[status |-> 1, out |-> <<>>],
               [status |-> 0,
                out |-> SubSeq(RemoteQuery(cmd), 1, Len(RemoteQuery(cmd)) - 2)]}
         ELSE {}

\* Exit statuses a command without a page to cut can end with.
ExitStatuses == IF remote.fault = "unreliable" THEN {0, 1} ELSE {0}

DigitChars == <<"0", "1", "2", "3", "4", "5", "6", "7", "8", "9">>

\* str(n) of a natural number, as text.
RECURSIVE Decimal(_)
Decimal(n) ==
    IF n < 10 THEN <<Ch(DigitChars[n + 1])>>
    ELSE Decimal(n \div 10) \o <<Ch(DigitChars[(n % 10) + 1])>>

\* The banner the version command prints: "gerrit version <major>.<minor>",
\* the same cut off after the major number, or something else altogether.
VersionBanner(kind) ==
    CASE kind = "full" ->
           <<Ch("gerrit version ")>> \o Decimal(remote.version[1]) \o <<Ch(".")>>
               \o Decimal(remote.version[2]) \o <<NL>>
      [] kind = "cut" ->
           <<Ch("gerrit version ")>> \o Decimal(remote.version[1]) \o <<NL>>
      [] OTHER -> <<Ch("garbage"), NL>>

\* What subprocess.check_output can get for the version command: the remote's
\* banner with exit status 0; from an unreliable remote also a non-zero exit
\* status and the banner cut off.
VersionResponses ==
    {[status |-> 0, out |-> VersionBanner(remote.banner)]} \cup
    IF remote.fault = "unreliable"
    THEN {[status |-> 1, out |-> <<>>], [status |-> 0, out |-> VersionBanner("cut")]}
    ELSE {}

RECURSIVE NameLines(_)
NameLines(l) ==
    IF l = <<>> THEN <<>>
    ELSE Chars(l[1]) \o <<NL>> \o NameLines(Tail(l))

\* The remote's answer to ls-projects: one project per line; the last line's
\* newline is there or not.
RemoteLsProjects ==
    IF remote.newline THEN NameLines(remote.projects)
    ELSE Pop(NameLines(remote.projects))

\* ------------------------------------------------------------------- disk
Absent == [exists |-> FALSE, text |-> <<>>]
File(text) == [exists |-> TRUE, text |-> text]

ProjectsFile(d) == d.projects
ReviewsFile(d, project) == d.reviews[Sanitize(project)]

\* open(cache_file, "w"): the file exists and is empty.
OpenTruncate == File(<<>>)


\* ----------------------------------------------------------------- engine
NoCache == [has_projects |-> FALSE, projects |-> <<>>]
Unset == [set |-> FALSE, val |-> <<>>]
NoItem == [kind |-> "none", v |-> 0]
NoData == [status |-> 0, out |-> <<>>]

\* A plausible slip: the per-project artifacts are removed as well.
clean_cache_disk_All(d) ==
    [d EXCEPT !.projects = File(<<>>), !.reviews = [f \in FileNames |-> Absent]]

\* _clean_cache: cache_projects.json is rewritten empty, cache['projects'] = [].
clean_cache_disk(d) == [d EXCEPT !.projects = File(<<>>)]
clean_cache_mem == [has_projects |-> TRUE, projects |-> <<>>]

\* _load_cache: open and json.loads of cache_projects.json.
\* caught: "IOError" (no such file), "ValueError" (not JSON), "none".
load_cache(d) ==
    IF ~ProjectsFile(d).exists
    THEN [caught |-> "IOError", projects |-> <<>>]
    ELSE LET r == JsonLoads(ProjectsFile(d).text)
         IN  IF r.ok
             THEN [caught |-> "none",
                   projects |-> [i \in 1..Len(r.val) |-> r.val[i].subject]]
             ELSE [caught |-> "ValueError", projects |-> <<>>]

\* _restore: self.issues = json.loads(reviews.json) when the file is there;
\* a ValueError is logged and leaves self.issues as it was.
restore(d, old_issues) ==
    IF d.dump.exists /\ JsonLoads(d.dump.text).ok
    THEN [set |-> TRUE, val |-> JsonLoads(d.dump.text).val]
    ELSE old_issues

\* A plausible slip: the except clause logs the failure and goes on.
cache_corrupted_LogOnly(d, caught) ==
    [use_cache |-> TRUE, use_history |-> FALSE, cache |-> NoCache,
     issues |-> Unset, disk |-> d, caught |-> caught]

\* __init__'s except clause: use_cache is switched off and _clean_cache runs.
cache_corrupted(d, caught) ==
    [use_cache |-> FALSE, use_history |-> FALSE, cache |-> clean_cache_mem,
     issues |-> Unset, disk |-> clean_cache_disk(d), caught |-> caught]

\* A plausible slip: the history argument is taken as given.
history_mode_AsGiven(arg_use_cache, arg_history) == arg_history

\* self.use_history after "if self.use_cache: self.use_history = False".
history_mode(arg_use_cache, arg_history) ==
    IF arg_use_cache THEN FALSE ELSE arg_history

\* __init__ on a storage directory d: the engine's fields and the directory.
Constructed(arg_use_cache, arg_history, d) ==
    LET history == history_mode(arg_use_cache, arg_history)
        loaded == load_cache(d)
    IN  IF history
        THEN [use_cache |-> arg_use_cache, use_history |-> history,
              cache |-> NoCache, issues |-> restore(d, Unset), disk |-> d,
              caught |-> "none"]
        ELSE IF arg_use_cache
        THEN IF loaded.caught = "none"
             THEN [use_cache |-> TRUE, use_history |-> history,
                   cache |-> [has_projects |-> TRUE, projects |-> loaded.projects],
                   issues |-> Unset, disk |-> d, caught |-> "none"]
             ELSE cache_corrupted(d, loaded.caught)
        ELSE [use_cache |-> FALSE, use_history |-> history,
              cache |-> clean_cache_mem, issues |-> Unset,
              disk |-> clean_cache_disk(d), caught |-> "none"]

IsDigit(t) == \E d \in 1..10 : t = Ch(DigitChars[d])
DigitValue(t) == (CHOOSE d \in 1..10 : t = Ch(DigitChars[d])) - 1

\* \d+ from position i: the first position after the digits.
RECURSIVE DigitsEnd(_, _)
DigitsEnd(s, i) ==
    IF i <= Len(s) /\ IsDigit(s[i]) THEN DigitsEnd(s, i + 1) ELSE i

\* int() of a run of digits.
RECURSIVE IntOf(_)
IntOf(s) ==
    IF s = <<>> THEN 0 ELSE 10 * IntOf(Pop(s)) + DigitValue(s[Len(s)])

\* _get_version: re.match("gerrit version (\d+)\.(\d+).*") on the banner;
\* Exception("Invalid gerrit version ...") when it does not match, else
\* [mayor, minor].
get_version(banner) ==
    LET a == 2
        b == DigitsEnd(banner, a)
        c == DigitsEnd(banner, b + 1)
    IN  IF /\ Len(banner) >= 1 /\ banner[1] = Ch("gerrit version ")
           /\ b > a
           /\ b <= Len(banner) /\ banner[b] = Ch(".")
           /\ c > b + 1
        THEN [ok |-> TRUE,
              version |-> <<IntOf(SubSeq(banner, a, b - 1)),
                            IntOf(SubSeq(banner, b + 1, c - 1))>>]
        ELSE [ok |-> FALSE, version |-> <<0, 0>>]

\* A plausible slip: > for >=.
OffsetStrategy_Strict(version) == version[1] = 2 /\ version[2] > 9

\* gerrit_version[0] == 2 and gerrit_version[1] >= 9: --start is used.
OffsetStrategy(version) == version[1] = 2 /\ version[2] >= 9

\* The query command of one loop iteration.
QueryCommand(project, version, item) ==
    [op |-> "query", project |-> project, limit |-> nreviews,
     cursor |-> IF item.kind = "none" THEN "none"
                ELSE IF OffsetStrategy(version) THEN "start" ELSE "resume",
     v |-> item.v]
VersionCommand == [op |-> "version", project |-> <<>>, limit |-> 0,
                   cursor |-> "none", v |-> 0]
LsProjectsCommand == [op |-> "ls-projects", project |-> <<>>, limit |-> 0,
                      cursor |-> "none", v |-> 0]

\* for entry in tickets: the loop body, from entry i on.
RECURSIVE ProcessEntries(_, _, _, _)
ProcessEntries(tickets, i, version, st) ==
    IF i > Len(tickets) THEN st
    ELSE LET entry == tickets[i]
             next ==
                 IF "project" \in Keys(entry)
                 THEN [st EXCEPT
                         !.reviews = Append(st.reviews, entry),
                         !.last_item =
                             IF OffsetStrategy(version)
                             THEN [kind |-> "int", v |-> st.last_item.v + 1]
                             ELSE [kind |-> "key", v |-> entry.sortKey]]
                 ELSE IF "rowCount" \in Keys(entry)
                 THEN [st EXCEPT !.number_results = entry.rowCount]
                 ELSE st
         IN  ProcessEntries(tickets, i + 1, version, next)

\* A plausible slip: the limit + 1 tolerance left out.
LoopContinues_ExactOnly(results, limit) == results = limit

\* The while condition of _get_project_reviews.
LoopContinues(results, limit) == results = limit \/ results = limit + 1

\* Plausible slips: > for >=, and the test left out.
CapReached_Strict(n) == n > max_reviews
CapReached_Never(n) == FALSE

\* The cap test of get_reviews.
CapReached(n) == n >= max_reviews

\* A plausible slip: the loop variable is not the project being fetched.
Project_First == projects[1]

\* for project in projects: the project of the running iteration.
Project == projects[current_repo]

\* A plausible slip: the exit status is not looked at.
CommandFails_Never(response) == FALSE

\* subprocess.check_output raises CalledProcessError on a non-zero exit status.
CommandFails(response) == response.status # 0

\* The query commands issued since the last command of another kind.
RECURSIVE TrailingQueries(_)
TrailingQueries(log) ==
    IF log = <<>> \/ log[Len(log)].op # "query" THEN 0
    ELSE 1 + TrailingQueries(Pop(log))



\* ------------------------------------------------------------------- Init
\* The listings tried: up to MaxProjects of the names, in the remote's order.
Position(name) == CHOOSE i \in 1..Len(NameOrder) : NameOrder[i] = name
ProjectLists ==
    {l \in UNION {[1..n -> Names] : n \in 0..MaxProjects} :
        \A i, j \in 1..Len(l) : i < j => Position(l[i]) < Position(l[j])}

Listed(l) == {l[i] : i \in 1..Len(l)}

\* Well-behaved remotes: every answer complete, ls-projects newline-terminated.
\* The limit quirk and the offset cursor are tried on a remote that lists no
\* project but c.
Remotes ==
    {r \in [projects : ProjectLists,
            count : [Names -> 0..MaxReviewsPerProject],
            version : Versions,
            banner : {"full"},
            plusOne : BOOLEAN,
            newline : {TRUE},
            fault : {"none"}] :
        /\ \A n \in Names \ Listed(r.projects) : r.count[n] = 0
        /\ (r.plusOne \/ r.version = <<2, 9>>) => Listed(r.projects) \subseteq {<<"c">>}}

EmptyDisk == [projects |-> Absent, dump |-> Absent,
              reviews |-> [f \in FileNames |-> Absent]]

\* The state before the first engine is constructed, on a storage directory
\* d and against a remote r, psutil being usable or not.
Start(r, d, p) ==
    /\ remote = r
    /\ psutil = p
    /\ disk = d
    /\ use_cache = FALSE
    /\ use_history = FALSE
    /\ cache = NoCache
    /\ reviews = <<>>
    /\ issues = Unset
    /\ pc = "new"
    /\ projects = <<>>
    /\ current_repo = 1
    /\ gerrit_version = <<0, 0>>
    /\ last_item = NoItem
    /\ number_results = 0
    /\ raw_data = NoData
    /\ project_reviews = <<>>
    /\ cmdLog = <<>>
    /\ args = [use_cache |-> FALSE, history |-> FALSE, caught |-> "none"]
    /\ calls = 0
    /\ runs = 0

Init ==
    /\ nreviews \in 1..MaxPageSize
    /\ \E r \in Remotes : Start(r, EmptyDisk, TRUE)

\* reviews.json as an earlier program can have left it: not there, a dump of
\* one review, a dump cut short.
Dumps ==
    {Absent,
     File(JsonDumps(<<ReviewEntry(<<"c">>, 1, KeyOf(1), <<"x">>)>>)),
     File(<<LBR>>)}

\* The listings of the rough environment: of the projects a_b and c.
RoughLists == {l \in ProjectLists : <<"a", "/", "b">> \notin Listed(l)}

\* Rough environments, one roughness at a time: a storage directory that holds
\* a full dump, a remote whose ls-projects answer ends without a newline, a
\* remote with a fault, a remote whose version banner is not the usual one, a
\* host on which psutil cannot be used.  The offset cursor and the dump are
\* tried on a remote that lists no project but c.
RoughStarts ==
    {e \in [remote : [projects : RoughLists,
                      count : [Names -> 0..MaxReviewsPerProject],
                      version : Versions,
                      banner : {"full", "cut", "garbage"},
                      plusOne : {FALSE},
                      newline : BOOLEAN,
                      fault : {"none", "unreliable", "nostats"}],
            dump : Dumps,
            psutil : BOOLEAN] :
        /\ \A n \in Names \ Listed(e.remote.projects) : e.remote.count[n] = 0
        /\ (e.remote.version = <<2, 9>> \/ e.dump # Absent) =>
              Listed(e.remote.projects) \subseteq {<<"c">>}
        /\ Cardinality({x \in {"dump", "newline", "fault", "banner", "psutil"} :
                CASE x = "dump" -> e.dump # Absent
                  [] x = "newline" -> ~e.remote.newline
                  [] x = "fault" -> e.remote.fault # "none"
                  [] x = "banner" -> e.remote.banner # "full"
                  [] OTHER -> ~e.psutil}) = 1}

InitRough ==
    /\ nreviews \in 1..MaxPageSize
    /\ \E e \in RoughStarts :
          Start(e.remote, [EmptyDisk EXCEPT !.dump = e.dump], e.psutil)

\* ---------------------------------------------------------------- actions
\* Gerrit(user, repository, nreviews, use_cache, history): a new process
\* constructs an engine on the storage directory the earlier ones left.
Gerrit_init(arg_use_cache, arg_history) ==
    /\ \/ pc = "new"
       \/ pc \in {"ready", "raised", "stopped"} /\ runs < MaxRuns
    /\ LET c == Constructed(arg_use_cache, arg_history, disk)
       IN  /\ use_cache' = c.use_cache
           /\ use_history' = c.use_history
           /\ cache' = c.cache
           /\ issues' = c.issues
           /\ disk' = c.disk
           /\ args' = [use_cache |-> arg_use_cache, history |-> arg_history,
                       caught |-> c.caught]
    /\ reviews' = <<>>
    /\ projects' = <<>>
    /\ current_repo' = 1
    /\ gerrit_version' = <<0, 0>>
    /\ last_item' = NoItem
    /\ number_results' = 0
    /\ raw_data' = NoData
    /\ project_reviews' = <<>>
    /\ cmdLog' = <<>>
    /\ calls' = 0
    /\ runs' = runs + 1
    /\ pc' = "ready"
    /\ UNCHANGED <<remote, psutil, nreviews>>

\* A plausible slip: the pop of the remote branch applied to the cached list too.
cached_projects_Popped == Pop(cache.projects)

\* _get_projects under cache-reuse: projects = self.cache['projects'].
cached_projects == cache.projects

\* A plausible slip: the cap is tested before the first project is fetched.
EnterLoop_CapFirst(projs) ==
    /\ current_repo' = 1
    /\ IF projs = <<>> \/ CapReached(Len(reviews))
       THEN pc' = "ready" /\ calls' = calls + 1
       ELSE pc' = "fetch" /\ calls' = calls

\* for project in projects: the loop is entered, or skipped when there is none.
EnterLoop(projs) ==
    /\ current_repo' = 1
    /\ IF projs = <<>>
       THEN pc' = "ready" /\ calls' = calls + 1
       ELSE pc' = "fetch" /\ calls' = calls

\* get_reviews up to the loop: _get_projects, which under cache-reuse returns
\* cache['projects'] and otherwise runs ls-projects (CalledProcessError leaves
\* get_reviews on a non-zero exit status), drops the last line and opens
\* cache_projects.json for writing.
get_reviews ==
    /\ pc = "ready"
    /\ calls < MaxCalls
    /\ IF use_cache
       THEN /\ projects' = cached_projects
            /\ EnterLoop(cached_projects)
            /\ UNCHANGED <<disk, cmdLog, raw_data>>
       ELSE \E status \in ExitStatuses :
            /\ cmdLog' = Append(cmdLog, LsProjectsCommand)
            /\ raw_data' = [status |-> status,
                            out |-> IF status = 0 THEN RemoteLsProjects ELSE <<>>]
            /\ IF CommandFails(raw_data')
               THEN /\ pc' = "raised"
                    /\ UNCHANGED <<projects, disk>>
               ELSE /\ projects' = Pop(SplitLines(raw_data'.out))
                    /\ disk' = [disk EXCEPT !.projects = OpenTruncate]
                    /\ pc' = "projects_write"
            /\ UNCHANGED <<current_repo, calls>>
    /\ UNCHANGED <<remote, psutil, nreviews, use_cache, use_history, cache, reviews,
                   issues, gerrit_version, last_item, number_results,
                   project_reviews, args, runs>>

ProjectsText(projs) == JsonDumps([i \in 1..Len(projs) |-> StrEntry(projs[i])])

\* _projects_to_cache: the whole list is written, then the loop starts.
projects_to_cache ==
    /\ pc = "projects_write"
    /\ disk' = [disk EXCEPT !.projects = File(ProjectsText(projects))]
    /\ EnterLoop(projects)
    /\ UNCHANGED <<remote, psutil, nreviews, use_cache, use_history, cache, reviews, issues,
                   projects, gerrit_version, last_item, number_results, raw_data,
                   project_reviews, cmdLog, args, runs>>

\* _load_cache_project: None when the file is not there, else json.loads of it.
load_cache_project(d, project) ==
    IF ~ReviewsFile(d, project).exists
    THEN [raised |-> FALSE, none |-> TRUE, val |-> <<>>]
    ELSE LET r == JsonLoads(ReviewsFile(d, project).text)
         IN  [raised |-> ~r.ok, none |-> FALSE, val |-> r.val]

\* _get_project_reviews up to the while loop: the cached list when cache-reuse
\* finds a non-empty one, else _get_version (which raises on a non-zero exit
\* status and on a banner that does not match) and the loop's start values.
get_project_reviews ==
    /\ pc = "fetch"
    /\ LET cached == load_cache_project(disk, Project)
       IN  IF use_cache /\ cached.raised
           THEN /\ pc' = "raised"
                /\ UNCHANGED <<gerrit_version, last_item, number_results, raw_data,
                               project_reviews, cmdLog>>
           ELSE IF use_cache /\ cached.val # <<>>
           THEN /\ project_reviews' = cached.val
                /\ pc' = "return"
                /\ UNCHANGED <<gerrit_version, last_item, number_results, raw_data,
                               cmdLog>>
           ELSE \E response \in VersionResponses :
                /\ cmdLog' = Append(cmdLog, VersionCommand)
                /\ raw_data' = response
                /\ IF CommandFails(response) \/ ~get_version(response.out).ok
                   THEN /\ pc' = "raised"
                        /\ UNCHANGED <<gerrit_version, last_item, number_results,
                                       project_reviews>>
                   ELSE /\ gerrit_version' = get_version(response.out).version
                        /\ last_item' =
                              IF OffsetStrategy(get_version(response.out).version)
                              THEN [kind |-> "int", v |-> 0] ELSE NoItem
                        /\ number_results' = nreviews
                        /\ project_reviews' = <<>>
                        /\ pc' = IF LoopContinues(nreviews, nreviews)
                                 THEN "query" ELSE "return"
    /\ UNCHANGED <<remote, psutil, disk, nreviews, use_cache, use_history, cache, reviews,
                   issues, projects, current_repo, args, calls, runs>>

\* One iteration of the while loop up to the checkpoint: the query, the framing,
\* json.loads, the entries, and the open of the project's cache file.
query_page ==
    /\ pc = "query"
    /\ TrailingQueries(cmdLog) < MaxQueries
    /\ \E response \in QueryResponses(QueryCommand(Project, gerrit_version, last_item)) :
       LET cmd == QueryCommand(Project, gerrit_version, last_item)
           tickets == JsonLoads(FrameTickets(response.out))
           st == ProcessEntries(tickets.val, 1, gerrit_version,
                                [reviews |-> project_reviews,
                                 last_item |-> last_item,
                                 number_results |-> number_results])
       IN  /\ cmdLog' = Append(cmdLog, cmd)
           /\ raw_data' = response
           /\ IF CommandFails(response) \/ ~tickets.ok
              THEN /\ pc' = "raised"
                   /\ UNCHANGED <<disk, last_item, number_results, project_reviews>>
              ELSE /\ project_reviews' = st.reviews
                   /\ last_item' = st.last_item
                   /\ number_results' = st.number_results
                   /\ disk' = [disk EXCEPT !.reviews[Sanitize(Project)] = OpenTruncate]
                   /\ pc' = "write"
    /\ UNCHANGED <<remote, psutil, nreviews, use_cache, use_history, cache, reviews, issues,
                   projects, current_repo, gerrit_version, args, calls, runs>>

\* _project_reviews_to_cache: json.dumps of the whole list so far is written;
\* then the while condition is tested.
project_reviews_to_cache ==
    /\ pc = "write"
    /\ disk' = [disk EXCEPT
                  !.reviews[Sanitize(Project)] = File(JsonDumps(project_reviews))]
    /\ pc' = IF LoopContinues(number_results, nreviews) THEN "query" ELSE "return"
    /\ UNCHANGED <<remote, psutil, nreviews, use_cache, use_history, cache, reviews, issues,
                   projects, current_repo, gerrit_version, last_item, number_results,
                   raw_data, project_reviews, cmdLog, args, calls, runs>>

\* import psutil ... process.get_memory_info(): _memory_usage returns a
\* number, or raises where psutil cannot be used.
memory_usage == [raised |-> ~psutil]

\* get_reviews after _get_project_reviews returned: the reviews are appended
\* and the cap is tested; when it is reached the loop ends, else _memory_usage
\* is called for the log line and the loop goes on to the next project or ends.
append_reviews ==
    /\ pc = "return"
    /\ reviews' = reviews \o project_reviews
    /\ IF CapReached(Len(reviews'))
       THEN /\ pc' = "ready"
            /\ calls' = calls + 1
            /\ current_repo' = current_repo
       ELSE IF memory_usage.raised
       THEN /\ pc' = "raised"
            /\ UNCHANGED <<calls, current_repo>>
       ELSE /\ current_repo' = current_repo + 1
            /\ IF current_repo = Len(projects)
               THEN pc' = "ready" /\ calls' = calls + 1
               ELSE pc' = "fetch" /\ calls' = calls
    /\ UNCHANGED <<remote, psutil, disk, nreviews, use_cache, use_history, cache, issues,
                   projects, gerrit_version, last_item, number_results, raw_data,
                   project_reviews, cmdLog, args, runs>>

\* Where a write can be cut short: after any number of the text's tokens.
CutPoints(text) == 0..Len(text)

\* The text being written when the process is in a write.
PendingText ==
    IF pc = "projects_write" THEN ProjectsText(projects)
    ELSE JsonDumps(project_reviews)

\* The process stops (is killed, loses power) in the middle of get_reviews.  A
\* file that is open for writing keeps a prefix of the text being written; what
\* the process held in memory is gone.
Crash ==
    /\ pc \in {"projects_write", "fetch", "query", "write", "return"}
    /\ pc' = "stopped"
    /\ IF pc = "projects_write"
       THEN \E k \in CutPoints(PendingText) :
               disk' = [disk EXCEPT !.projects = File(SubSeq(PendingText, 1, k))]
       ELSE IF pc = "write"
       THEN \E k \in CutPoints(PendingText) :
               disk' = [disk EXCEPT
                          !.reviews[Sanitize(Project)] =
                              File(SubSeq(PendingText, 1, k))]
       ELSE disk' = disk
    /\ use_cache' = FALSE
    /\ use_history' = FALSE
    /\ cache' = NoCache
    /\ reviews' = <<>>
    /\ issues' = Unset
    /\ projects' = <<>>
    /\ current_repo' = 1
    /\ gerrit_version' = <<0, 0>>
    /\ last_item' = NoItem
    /\ number_results' = 0
    /\ raw_data' = NoData
    /\ project_reviews' = <<>>
    /\ cmdLog' = <<>>
    /\ calls' = 0
    /\ UNCHANGED <<remote, psutil, nreviews, args, runs>>

Next ==
    \/ \E arg_use_cache, arg_history \in BOOLEAN :
          Gerrit_init(arg_use_cache, arg_history)
    \/ get_reviews
    \/ projects_to_cache
    \/ get_project_reviews
    \/ query_page
    \/ project_reviews_to_cache
    \/ append_reviews
    \/ Crash

Spec == Init /\ [][Next]_vars

\* The same engine on a rough environment.
SpecRough == InitRough /\ [][Next]_vars

\* ----------------------------------------------------------------- claims
IsPrefix(a, b) == Len(a) <= Len(b) /\ SubSeq(b, 1, Len(a)) = a

\* A review as the fetch accumulates it: its line framed and parsed.
AsFetched(e) == JsonLoads(FrameTickets(ObjectText(e) \o <<NL>>)).val[1]
FetchedSequence(project) ==
    [i \in 1..Len(RemoteReviews(project)) |-> AsFetched(RemoteReviews(project)[i])]

Numbers(l) == [i \in 1..Len(l) |-> l[i].number]
Loaded(file) == JsonLoads(file.text)
LoadedNames(file) == [i \in 1..Len(Loaded(file).val) |-> Loaded(file).val[i].subject]

\* C1: with cache-reuse off, a fetch that returns has accumulated exactly the
\* remote's review records of the project, each once and in remote order,
\* under the offset strategy and under the sort-key strategy.
C1_FetchReturnsRemoteReviews ==
    (pc = "return" /\ ~use_cache) => project_reviews = RemoteReviews(Project)

\* The part of C1 the pagination decides: the records returned are the remote's
\* by number, each once and in order.
FetchReturnsEveryNumberOnce ==
    (pc = "return" /\ ~use_cache) =>
        Numbers(project_reviews) = Numbers(RemoteReviews(Project))

\* C2: after a page's checkpoint another query is issued if and only if the
\* rowCount last recorded is nreviews or nreviews + 1; otherwise the fetch
\* returns.  A query command is issued by the loop's iteration and by nothing else.
C2_LoopContinuesIffRowCount ==
    /\ [][(pc = "write" /\ pc' # "stopped") =>
            pc' = IF number_results \in {nreviews, nreviews + 1}
                  THEN "query" ELSE "return"]_vars
    /\ [][(pc = "query" /\ pc' # "stopped") <=>
            (Len(cmdLog') = Len(cmdLog) + 1 /\ cmdLog'[Len(cmdLog')].op = "query")]_vars

\* A page reported nreviews + 1 rows and the loop is about to query again.
C2_Witness ==
    /\ pc = "query"
    /\ number_results = nreviews + 1
    /\ project_reviews # <<>>

\* C3: the checkpoint written after a page reloads as exactly the reviews
\* accumulated for the project so far, and the artifacts of the other listed
\* projects are unchanged by it.
C3_CheckpointEqualsAccumulation ==
    [][(pc = "write" /\ pc' \in {"query", "return"}) =>
          /\ Loaded(ReviewsFile(disk', Project)).ok
          /\ Loaded(ReviewsFile(disk', Project)).val = project_reviews
          /\ \A q \in Listed(projects) \ {Project} :
                ReviewsFile(disk', q) = ReviewsFile(disk, q)]_vars

\* The part of C3 about the project's own artifact.
CheckpointReloadsAsAccumulation ==
    [][(pc = "write" /\ pc' \in {"query", "return"}) =>
          /\ Loaded(ReviewsFile(disk', Project)).ok
          /\ Loaded(ReviewsFile(disk', Project)).val = project_reviews]_vars

\* C4: a per-project review artifact that is present and non-empty is a
\* complete parseable snapshot, equal to a prefix of the review sequence
\* fetched for a project of that file name; also after the process stopped
\* during a checkpoint write.
C4_ArtifactIsCompleteSnapshot ==
    \A f \in FileNames :
        (disk.reviews[f].exists /\ disk.reviews[f].text # <<>>) =>
            /\ Loaded(disk.reviews[f]).ok
            /\ \E q \in Names :
                  /\ Sanitize(q) = f
                  /\ IsPrefix(Loaded(disk.reviews[f]).val, FetchedSequence(q))

\* C5: under cache-reuse, a fetch whose artifact is present and non-empty
\* returns the stored artifact verbatim and issues no remote command; with the
\* artifact absent or holding the empty list it raises nothing and goes on to
\* the remote fetch.
C5_CacheReuseReturnsArtifact ==
    [][(pc = "fetch" /\ use_cache /\ pc' # "stopped") =>
          LET file == ReviewsFile(disk, Project)
          IN  /\ (file.exists /\ file.text # <<>>
                    /\ ~(Loaded(file).ok /\ Loaded(file).val = <<>>)) =>
                    /\ pc' = "return"
                    /\ JsonDumps(project_reviews') = file.text
                    /\ cmdLog' = cmdLog
              /\ (~file.exists \/ (Loaded(file).ok /\ Loaded(file).val = <<>>)) =>
                    /\ pc' = "query"
                    /\ cmdLog' = Append(cmdLog, VersionCommand)]_vars

\* The part of C5 about artifacts that hold a list: a non-empty list is
\* returned with no command issued, an absent artifact or an empty list leads
\* to the version command with nothing raised.
ListArtifactIsReturned ==
    [][(pc = "fetch" /\ use_cache /\ pc' # "stopped") =>
          LET file == ReviewsFile(disk, Project)
          IN  /\ (file.exists /\ Loaded(file).ok /\ Loaded(file).val # <<>>) =>
                    /\ pc' = "return"
                    /\ project_reviews' = Loaded(file).val
                    /\ cmdLog' = cmdLog
              /\ (~file.exists \/ (Loaded(file).ok /\ Loaded(file).val = <<>>)) =>
                    /\ pc' = "query"
                    /\ cmdLog' = Append(cmdLog, VersionCommand)]_vars

\* A fetch was served from the cache: reviews returned, no command issued.
CacheHitReached ==
    /\ pc = "return"
    /\ use_cache
    /\ cmdLog = <<>>
    /\ project_reviews # <<>>

\* Under cache-reuse the artifact holds the empty list and the remote is asked.
EmptyListArtifactReached ==
    /\ pc = "query"
    /\ use_cache
    /\ ReviewsFile(disk, Project).exists
    /\ Loaded(ReviewsFile(disk, Project)).ok
    /\ Loaded(ReviewsFile(disk, Project)).val = <<>>

\* C6: when the accumulator holds max_reviews records or more after a project
\* was appended, get_reviews returns the accumulator there and then: no command
\* is issued, no project after it is fetched.
C6_CapStopsIteration ==
    [][(pc = "return" /\ pc' # "stopped"
          /\ Len(reviews \o project_reviews) >= max_reviews) =>
          /\ pc' = "ready"
          /\ calls' = calls + 1
          /\ reviews' = reviews \o project_reviews
          /\ current_repo' = current_repo
          /\ cmdLog' = cmdLog
          /\ disk' = disk]_vars

\* The cap was crossed and a listed project was left unvisited.
C6_Witness ==
    /\ pc = "ready"
    /\ calls = 1
    /\ Len(reviews) >= max_reviews
    /\ current_repo < Len(projects)
    /\ \A i \in 1..Len(cmdLog) : cmdLog[i].project # projects[Len(projects)]

\* C7 as stated, on an engine's first get_reviews call (the accumulator starts
\* empty): the accumulator never holds more than max_reviews records.
C7_AccumulatorWithinCap ==
    (calls = 0 \/ (calls = 1 /\ pc = "ready")) => Len(reviews) <= max_reviews

\* C7 as amended: a project after the first of a call is fetched only while the
\* accumulator holds fewer than max_reviews records; so on the engine's first
\* call the accumulator stays under max_reviews plus the last project's count.
C7_CapBoundsFetchStart ==
    /\ (pc \in {"fetch", "query", "write", "return"} /\ current_repo > 1) =>
          Len(reviews) < max_reviews
    /\ (calls = 0 /\ pc # "ready") => Len(reviews) < max_reviews
    /\ (calls <= 1 /\ pc = "ready") =>
          Len(reviews) < max_reviews + Len(project_reviews)

\* The first call returned more than max_reviews records.
C7_Witness ==
    /\ pc = "ready"
    /\ calls = 1
    /\ Len(reviews) > max_reviews

\* C8: construction with cache-reuse requested on a project-list artifact that
\* is absent, empty or not JSON does not raise and leaves the engine and the
\* storage exactly as construction with cache-reuse off does: use_cache off,
\* cache_projects.json empty, cache['projects'] = [].
C8_CacheLoadFailureFallsBack ==
    [][(runs' = runs + 1 /\ args'.use_cache
          /\ (~ProjectsFile(disk).exists \/ ~Loaded(ProjectsFile(disk)).ok)) =>
          LET off == Constructed(FALSE, FALSE, disk)
          IN  /\ pc' = "ready"
              /\ use_cache' = FALSE
              /\ use_history' = FALSE
              /\ cache' = [has_projects |-> TRUE, projects |-> <<>>]
              /\ ProjectsFile(disk') = File(<<>>)
              /\ <<use_cache', use_history', cache', issues', disk'>> =
                 <<off.use_cache, off.use_history, off.cache, off.issues, off.disk>>
              /\ reviews' = <<>> /\ cmdLog' = <<>> /\ calls' = 0]_vars

\* An engine was constructed with cache-reuse on an artifact that is not JSON.
C8_Witness ==
    /\ pc = "ready"
    /\ args.use_cache
    /\ args.caught = "ValueError"
    /\ ~use_cache

\* C9: under cache-reuse every _get_projects returns the sequence stored in the
\* project-list artifact, issues no command and writes nothing; the artifact
\* keeps holding that sequence, so every call returns the same.
C9_CachedProjectsIdempotent ==
    /\ [](use_cache =>
            /\ ProjectsFile(disk).exists
            /\ Loaded(ProjectsFile(disk)).ok
            /\ cache.projects = LoadedNames(ProjectsFile(disk))
            /\ \A i \in 1..Len(cmdLog) : cmdLog[i].op # "ls-projects")
    /\ [][(pc = "ready" /\ use_cache /\ runs' = runs) =>
            /\ projects' = LoadedNames(ProjectsFile(disk))
            /\ cmdLog' = cmdLog
            /\ disk' = disk]_vars

\* Under cache-reuse a second get_reviews has returned a non-empty listing.
C9_Witness ==
    /\ use_cache
    /\ pc = "ready"
    /\ calls = 2
    /\ projects # <<>>

\* C10: in history mode no remote command is issued, from construction on.
C10_HistoryModeIssuesNoCommand == use_history => cmdLog = <<>>

\* C11: construction in history mode does not raise; with a well-formed full
\* dump present the review accumulator (self.reviews, the sequence get_reviews
\* appends to and returns) then holds the content of the dump, with a
\* malformed dump it is empty.
C11_HistoryRestoresAccumulator ==
    [][(runs' = runs + 1 /\ args'.history /\ ~args'.use_cache) =>
          /\ pc' = "ready"
          /\ use_history'
          /\ reviews' = IF disk.dump.exists /\ Loaded(disk.dump).ok
                        THEN Loaded(disk.dump).val
                        ELSE <<>>]_vars

\* What the code does with the dump: it goes to self.issues; self.reviews is
\* empty after every construction.  A malformed dump leaves self.issues unset.
HistoryRestoresIssues ==
    [][(runs' = runs + 1 /\ args'.history /\ ~args'.use_cache) =>
          /\ pc' = "ready"
          /\ reviews' = <<>>
          /\ issues' = IF disk.dump.exists /\ Loaded(disk.dump).ok
                       THEN [set |-> TRUE, val |-> Loaded(disk.dump).val]
                       ELSE Unset]_vars

\* What the fetches of the projects before the k-th return, one after another.
RECURSIVE FetchedBefore(_)
FetchedBefore(k) ==
    IF k <= 1 THEN <<>>
    ELSE FetchedBefore(k - 1) \o FetchedSequence(projects[k - 1])

\* C12: a remote command that fails, or an answer that cannot be parsed (a
\* page, the version banner), while project k is fetched ends get_reviews with
\* the failure and exactly then; so does a failing ls-projects; the engine
\* issues no command after it; the accumulator holds what the projects before
\* k returned and nothing of k; k's artifact is the checkpoint of the last page
\* processed in full.
C12_FailurePropagates ==
    /\ [][(pc = "query" /\ pc' # "stopped") =>
            ((pc' = "raised") <=>
                (raw_data'.status # 0 \/ ~JsonLoads(FrameTickets(raw_data'.out)).ok))]_vars
    /\ [][(pc = "fetch" /\ pc' # "stopped" /\ cmdLog' # cmdLog) =>
            ((pc' = "raised") <=>
                (raw_data'.status # 0 \/ ~get_version(raw_data'.out).ok))]_vars
    /\ [][(pc = "ready" /\ runs' = runs /\ cmdLog' # cmdLog) =>
            /\ (pc' = "raised") <=> (raw_data'.status # 0)
            /\ pc' = "raised" => (disk' = disk /\ reviews' = reviews)]_vars
    /\ [][(pc \in {"fetch", "query"} /\ pc' = "raised") =>
            /\ reviews' = reviews
            /\ (calls = 0 /\ ~use_cache) => reviews' = FetchedBefore(current_repo)
            /\ disk' = disk
            /\ Len(cmdLog') <= Len(cmdLog) + 1
            /\ (pc = "query" /\ TrailingQueries(cmdLog) > 0) =>
                  /\ Loaded(ReviewsFile(disk', Project)).ok
                  /\ Loaded(ReviewsFile(disk', Project)).val = project_reviews]_vars
    /\ [][pc = "raised" => (runs' = runs + 1 /\ cmdLog' = <<>>)]_vars

\* The second project's query failed after a page of it had been processed and
\* checkpointed; the first project's reviews are in the accumulator.
C12_Witness ==
    /\ pc = "raised"
    /\ ~use_cache
    /\ current_repo = 2
    /\ raw_data.status # 0
    /\ project_reviews # <<>>
    /\ reviews # <<>>

\* A page that could not be parsed ended the fetch of the second project.
UnparsablePageReached ==
    /\ pc = "raised"
    /\ ~use_cache
    /\ current_repo = 2
    /\ raw_data.status = 0
    /\ ~JsonLoads(FrameTickets(raw_data.out)).ok

\* C13: an engine never has cache-reuse and history mode on together;
\* construction with cache-reuse requested leaves history mode off whatever the
\* history argument is, also when the cache load fails and cache-reuse is
\* switched off; history mode is on exactly when it was requested alone.
C13_CacheExcludesHistory ==
    /\ [](~(use_cache /\ use_history))
    /\ [][(runs' = runs + 1) =>
            /\ args'.use_cache => ~use_history'
            /\ (args'.use_cache /\ args'.caught # "none") =>
                  (~use_cache' /\ ~use_history')
            /\ use_history' <=> (args'.history /\ ~args'.use_cache)
            /\ use_cache' <=> (args'.use_cache /\ args'.caught = "none")]_vars

\* Both were requested and the cache load failed on a file that is not JSON.
C13_Witness ==
    /\ pc = "ready"
    /\ args.use_cache
    /\ args.history
    /\ args.caught = "ValueError"
    /\ ~use_cache
    /\ ~use_history

\* C14: with cache-reuse off _get_projects returns every project identifier
\* the remote listed, in order, whether or not the answer ends with a newline;
\* the project-list artifact is then rewritten to hold exactly the returned
\* sequence, which a later engine with cache-reuse loads back.
C14_ProjectsListedAndStored ==
    /\ [][(pc = "ready" /\ pc' = "projects_write") =>
            projects' = remote.projects]_vars
    /\ [][(pc = "projects_write" /\ pc' # "stopped") =>
            /\ ProjectsFile(disk') = File(ProjectsText(projects))
            /\ load_cache(disk').caught = "none"
            /\ load_cache(disk').projects = projects]_vars

\* The part of C14 that holds: an answer that ends with a newline is returned
\* whole, and whatever is returned is stored and loads back.
NewlineEndedListingIsStored ==
    /\ [][(pc = "ready" /\ pc' = "projects_write" /\ remote.newline) =>
            projects' = remote.projects]_vars
    /\ [][(pc = "projects_write" /\ pc' # "stopped") =>
            /\ ProjectsFile(disk') = File(ProjectsText(projects))
            /\ load_cache(disk').caught = "none"
            /\ load_cache(disk').projects = projects]_vars

\* C15: a fetch terminates whatever the remote answers, an answer without
\* control record included: every query but the last of a fetch brings at least
\* one review of the project, so a fetch issues at most one query more than the
\* project has reviews.  A loop that goes on for ever issues more than that.
C15_FetchTerminates ==
    pc \in {"query", "write"} =>
        TrailingQueries(cmdLog) <= Len(RemoteReviews(Project)) + 1

\* The part of C15 that holds: against a remote that ends every answer with
\* the control record a fetch issues no query beyond that number; a page with
\* no data row ends the loop, and a project without reviews gives the empty
\* sequence after one query.
FetchTerminatesWithControlRecords ==
    /\ [](pc \in {"query", "write"} /\ remote.fault # "nostats" =>
             TrailingQueries(cmdLog) <= Len(RemoteReviews(Project)) + 1)
    /\ [][(pc = "write" /\ pc' # "stopped" /\ remote.fault # "nostats"
             /\ JsonLoads(FrameTickets(raw_data.out)).val
                  = <<StatsEntry(0)>>) => pc' = "return"]_vars
    /\ [](pc = "return" /\ ~use_cache /\ remote.fault # "nostats"
             /\ RemoteReviews(Project) = <<>> =>
             (project_reviews = <<>> /\ TrailingQueries(cmdLog) = 1))

\* A fetch that has gone through MaxQueries queries and is about to issue the
\* next: the remote sends no control record and number_results is still the
\* page size it started with.
EndlessFetchReached ==
    /\ pc = "query"
    /\ TrailingQueries(cmdLog) = MaxQueries
    /\ number_results = nreviews
    /\ cmdLog[Len(cmdLog)] = cmdLog[Len(cmdLog) - 1]

IssuesCommand == Len(cmdLog') = Len(cmdLog) + 1
LastIssued == cmdLog'[Len(cmdLog')]
ReviewFilesChange == disk'.reviews # disk.reviews

\* C16: the engine's operations come one after another in a fixed order.  In a
\* fetch a query is followed by the checkpoint write of its page, which is
\* complete before the next query is issued, and nothing else comes between
\* them.  get_reviews visits the projects in listing order, each once; the
\* commands it issues are for the project of the running iteration, and it
\* moves to the next project only by appending the fetched reviews.
C16_SequentialOrder ==
    /\ [][(IssuesCommand /\ LastIssued.op = "query") =>
            /\ pc = "query"
            /\ pc' \in {"write", "raised"}
            /\ LastIssued.project = projects[current_repo]]_vars
    /\ [][(IssuesCommand /\ LastIssued.op = "version") =>
            (pc = "fetch" /\ pc' \in {"query", "raised"})]_vars
    /\ [][(pc = "write" /\ pc' # "stopped") =>
            /\ pc' \in {"query", "return"}
            /\ cmdLog' = cmdLog
            /\ disk'.reviews[Sanitize(projects[current_repo])]
                  = File(JsonDumps(project_reviews))]_vars
    /\ [][(ReviewFilesChange /\ pc' # "stopped") =>
            (pc = "query" /\ pc' = "write") \/ pc = "write"]_vars
    /\ [][(current_repo' # current_repo /\ runs' = runs /\ pc' # "stopped") =>
            \/ /\ pc = "return"
               /\ current_repo' = current_repo + 1
               /\ reviews' = reviews \o project_reviews
            \/ /\ pc \in {"ready", "projects_write"}
               /\ current_repo' = 1]_vars
    /\ [][(pc = "return" /\ pc' = "fetch") =>
            /\ current_repo' = current_repo + 1
            /\ reviews' = reviews \o project_reviews
            /\ cmdLog' = cmdLog]_vars
    /\ [](\A i, j \in 1..Len(projects) : projects[i] = projects[j] => i = j)
    /\ [](pc \in {"fetch", "query", "write", "return"} =>
            current_repo \in 1..Len(projects))

\* The second project's first page has been checkpointed and its next query is
\* about to be issued, the first project's reviews being in the accumulator.
C16_Witness ==
    /\ pc = "query"
    /\ current_repo = 2
    /\ project_reviews # <<>>
    /\ reviews # <<>>
    /\ TrailingQueries(cmdLog) = 1
    /\ ReviewsFile(disk, projects[2]) = File(JsonDumps(project_reviews))

\* The cursor the claim prescribes for the reviews accumulated so far.
CursorFor(version, accumulated) ==
    IF version[1] = 2 /\ version[2] >= 9
    THEN [kind |-> "int", v |-> Len(accumulated)]
    ELSE IF accumulated = <<>> THEN NoItem
    ELSE [kind |-> "key", v |-> accumulated[Len(accumulated)].sortKey]

\* C17: when a query is issued the cursor is, under the offset strategy (2.9
\* and later), the number of reviews accumulated for the project, from 0 on,
\* and the query carries --start=<cursor>; under the sort-key strategy the
\* first query carries no resume clause and a later one resumes from the
\* sortKey of the last review accumulated.  A page that adds no review leaves
\* the cursor as it is.
C17_CursorDiscipline ==
    /\ [](pc = "query" => last_item = CursorFor(gerrit_version, project_reviews))
    /\ [][(IssuesCommand /\ LastIssued.op = "query") =>
            /\ LastIssued.limit = nreviews
            /\ IF gerrit_version[1] = 2 /\ gerrit_version[2] >= 9
               THEN /\ LastIssued.cursor = "start"
                    /\ LastIssued.v = Len(project_reviews)
                    /\ TrailingQueries(cmdLog) = 0 => LastIssued.v = 0
               ELSE IF TrailingQueries(cmdLog) = 0
               THEN LastIssued.cursor = "none"
               ELSE /\ LastIssued.cursor = "resume"
                    /\ project_reviews # <<>>
                    /\ LastIssued.v = project_reviews[Len(project_reviews)].sortKey]_vars
    /\ [][(pc = "query" /\ pc' = "write") =>
            /\ project_reviews' = project_reviews => last_item' = last_item
            /\ last_item' = CursorFor(gerrit_version, project_reviews')]_vars

\* Under the sort-key strategy a query that resumes from the last review's
\* sortKey has been issued.
C17_Witness ==
    /\ gerrit_version = <<2, 8>>
    /\ cmdLog # <<>>
    /\ cmdLog[Len(cmdLog)].op = "query"
    /\ cmdLog[Len(cmdLog)].cursor = "resume"
    /\ cmdLog[Len(cmdLog)].v = KeyOf(1)
    /\ pc = "write"

\* Under the offset strategy a query with --start=2 has been issued.
OffsetCursorAdvanced ==
    /\ gerrit_version = <<2, 9>>
    /\ cmdLog # <<>>
    /\ cmdLog[Len(cmdLog)].op = "query"
    /\ cmdLog[Len(cmdLog)].cursor = "start"
    /\ cmdLog[Len(cmdLog)].v = 2
    /\ pc = "write"

\* C18: under cache-reuse the fetch of a project whose artifact holds a
\* checkpoint of its first pages (left by a run that was interrupted before
\* the last page) returns all the reviews of the project.
C18_ResumeCompletesPartialCheckpoint ==
    (/\ use_cache
     /\ pc = "return"
     /\ ReviewsFile(disk, Project).exists
     /\ Loaded(ReviewsFile(disk, Project)).ok
     /\ IsPrefix(Loaded(ReviewsFile(disk, Project)).val, FetchedSequence(Project)))
    => project_reviews = FetchedSequence(Project)

\* What the code does: under cache-reuse a non-empty list found in the artifact
\* is what the fetch returns, complete or not.
CachedListIsFinal ==
    [][(pc = "fetch" /\ use_cache /\ pc' # "stopped"
          /\ ReviewsFile(disk, Project).exists
          /\ Loaded(ReviewsFile(disk, Project)).ok
          /\ Loaded(ReviewsFile(disk, Project)).val # <<>>) =>
          /\ pc' = "return"
          /\ project_reviews' = Loaded(ReviewsFile(disk, Project)).val
          /\ cmdLog' = cmdLog
          /\ disk' = disk]_vars

\* A construction that runs _clean_cache: cache-reuse off without history mode,
\* or cache-reuse requested and the load failed.
CleansCache ==
    /\ runs' = runs + 1
    /\ ~(args'.history /\ ~args'.use_cache)
    /\ ~(args'.use_cache /\ args'.caught = "none")

\* The engine has just been constructed by a construction that ran _clean_cache.
JustCleaned ==
    /\ pc = "ready"
    /\ calls = 0
    /\ projects = <<>>
    /\ ~use_cache
    /\ ~use_history

\* C19: _clean_cache empties the project-list artifact and the in-memory
\* project cache and touches nothing else: the per-project review artifacts
\* and the full dump are as they were, so checkpoints of earlier runs survive
\* a construction with cache-reuse off.  Run twice it leaves what one run
\* leaves, also on a directory that held no artifact.
C19_CleanCacheFrame ==
    /\ [][CleansCache =>
            /\ disk'.reviews = disk.reviews
            /\ disk'.dump = disk.dump
            /\ disk'.projects = File(<<>>)
            /\ cache' = [has_projects |-> TRUE, projects |-> <<>>]]_vars
    /\ [][(CleansCache /\ JustCleaned) => (disk' = disk /\ cache' = cache)]_vars
    /\ [](clean_cache_disk(clean_cache_disk(disk)) = clean_cache_disk(disk))
    /\ clean_cache_disk(clean_cache_disk(EmptyDisk)) = clean_cache_disk(EmptyDisk)
    /\ clean_cache_disk(EmptyDisk).projects = File(<<>>)

\* A second engine was constructed with cache-reuse off on a directory that
\* holds a full dump and a checkpoint of an earlier run: both are still there.
C19_Witness ==
    /\ JustCleaned
    /\ runs = 2
    /\ ~args.use_cache
    /\ disk.dump.exists
    /\ disk.projects = File(<<>>)
    /\ \E f \in FileNames : disk.reviews[f].exists /\ disk.reviews[f].text # <<>>

\* C20: over an engine's lifetime the accumulator only grows at its end: every
\* step of the engine leaves its old value as a prefix of the new one, and it
\* changes only when a returned fetch is appended; so a later get_reviews call
\* returns what the earlier one returned followed by what is fetched again.
\* A call fetches its first project whatever the accumulator holds on entry:
\* the cap is tested only after a project was appended.
C20_AccumulatorAppendOnly ==
    /\ [][(runs' = runs /\ pc' # "stopped") => IsPrefix(reviews, reviews')]_vars
    /\ [][(reviews' # reviews /\ runs' = runs /\ pc' # "stopped") =>
            (pc = "return" /\ reviews' = reviews \o project_reviews)]_vars
    /\ [][(pc = "return" /\ pc' # "stopped") =>
            reviews' = reviews \o project_reviews]_vars
    /\ [][(pc \in {"ready", "projects_write"} /\ runs' = runs
             /\ pc' \notin {"stopped", "raised", "projects_write"}) =>
            pc' = IF projects' = <<>> THEN "ready" ELSE "fetch"]_vars

\* A second call on an engine whose accumulator was at the cap on entry has
\* fetched the first project again and appended it after the first call's result.
C20_Witness ==
    /\ pc = "ready"
    /\ calls = 2
    /\ Len(reviews) = 2 * max_reviews
    /\ SubSeq(reviews, 1, max_reviews) = SubSeq(reviews, max_reviews + 1, 2 * max_reviews)
    /\ current_repo = 1

====
